---------------------------- MODULE Spec2Model ----------------------------
(***************************************************************************)
(* A model of neuralmonkey/config/config_loader.py: the bracket-aware      *)
(* splitter (split_on_commas), the value formatter (format_value), the     *)
(* INI parser (get_config_dicts), the recursive object builder             *)
(* (get_object) and the top-level loader (load_config_file).               *)
(*                                                                         *)
(* A Python str is a sequence of one-character strings, so that the        *)
(* prefix "object:" that format_value puts in front of a referenced name   *)
(* and that get_object tests and cuts off again is computed, not assumed.  *)
(***************************************************************************)
EXTENDS Integers, Sequences, FiniteSets, TLC

\* ------------------------------------------------------------------ bounds

\* Longest input of split_on_commas explored by SpecSplit.
MaxLen == 4

\* Most lines of a file explored by SpecParse.
MaxLines == 3

\* Most arguments of a section in a graph file.
MaxArgs == 2

\* ------------------------------------------------------------- characters

Lower ==
  {"a","b","c","d","e","f","g","h","i","j","k","l","m",
   "n","o","p","q","r","s","t","u","v","w","x","y","z"}

Upper ==
  {"A","B","C","D","E","F","G","H","I","J","K","L","M",
   "N","O","P","Q","R","S","T","U","V","W","X","Y","Z"}

Digits == {"0","1","2","3","4","5","6","7","8","9"}

IsAlpha(c) == c \in Lower \cup Upper

IsDigit(c) == c \in Digits

IsWord(c) == IsAlpha(c) \/ IsDigit(c) \/ c = "_"

\* The pattern [a-zA-Z][a-zA-Z0-9_]* over a whole string.
IsIdent(s) ==
  /\ Len(s) >= 1
  /\ IsAlpha(s[1])
  /\ \A n \in 2..Len(s) : IsWord(s[n])

\* Python's s[a:b] for 0 <= a, 0 <= b (0-based, half-open).
Slice(s, a, b) == SubSeq(s, a + 1, b)

\* Python's s[a:].
SliceFrom(s, a) == SubSeq(s, a + 1, Len(s))

Last(s) == s[Len(s)]

Front(s) == SubSeq(s, 1, Len(s) - 1)

\* s.startswith(p)
StartsWith(s, p) == Len(s) >= Len(p) /\ SubSeq(s, 1, Len(p)) = p

\* The elements of a sequence.
Range(s) == {s[n] : n \in 1..Len(s)}

\* -------------------------------------------------------- split_on_commas

\* The locals of split_on_commas before the loop. exc is the exception the
\* call has raised ("none" while it has raised none) and col the column the
\* exception's message carries (-1 when the exception carries none).
SplitStart ==
  [items |-> <<>>, char_buffer |-> <<>>, openings |-> <<>>,
   exc |-> "none", col |-> -1]

\* openings.pop() != want, raising as the code does: pop() of an empty list
\* raises IndexError before anything is compared.
SplitClose(st, n, char, want) ==
  IF Len(st.openings) = 0
    THEN [st EXCEPT !.exc = "IndexError"]
    ELSE IF Last(st.openings) # want
      THEN [st EXCEPT !.openings = Front(@), !.exc = "InvalidBracketEnd",
                      !.col = n]
      ELSE [st EXCEPT !.openings = Front(@),
                      !.char_buffer = Append(@, char)]

\* One iteration of the loop, on the character char at 0-based index n.
SplitChar(st, n, char) ==
  IF char = "," /\ Len(st.openings) = 0
    THEN [st EXCEPT !.items = Append(@, st.char_buffer),
                    !.char_buffer = <<>>]
  ELSE IF char = " " /\ Len(st.char_buffer) = 0
    THEN st
  ELSE IF char = "(" \/ char = "["
    THEN [st EXCEPT !.openings = Append(@, char),
                    !.char_buffer = Append(@, char)]
  ELSE IF char = ")"
    THEN SplitClose(st, n, char, "(")
  ELSE IF char = "]"
    THEN SplitClose(st, n, char, "[")
  ELSE [st EXCEPT !.char_buffer = Append(@, char)]

\* The statement after the loop: the last buffer is an item too.
SplitEnd(st) == [st EXCEPT !.items = Append(@, st.char_buffer)]

RECURSIVE SplitFrom(_, _, _)
SplitFrom(st, s, n) ==
  IF st.exc # "none" THEN st
  ELSE IF n = Len(s) THEN SplitEnd(st)
  ELSE SplitFrom(SplitChar(st, n, s[n + 1]), s, n + 1)

\* split_on_commas(s): the final locals; items is the list returned when
\* exc = "none".
split_on_commas(s) == SplitFrom(SplitStart, s, 0)

\* ----------------------------------------------------------- Python values

\* A Python value: t is its type, the second field its content. A str holds
\* its characters, a list or tuple its elements, a class or function the
\* name it has in the registry below, an instance the section it was built
\* from and the number of the constructor call that built it (its identity).
BoolVal(b) == [t |-> "bool", b |-> b]

NoneVal == [t |-> "NoneType", none |-> TRUE]

IntVal(n) == [t |-> "int", n |-> n]

FloatVal(s) == [t |-> "float", repr |-> s]

StrVal(s) == [t |-> "str", s |-> s]

ListVal(es) == [t |-> "list", elems |-> es]

TupleVal(es) == [t |-> "tuple", elems |-> es]

CallableVal(c, kind) == [t |-> kind, callable |-> c]

IsStr(v) == v.t = "str"

\* not isinstance(value, str) and isinstance(value, collections.Iterable),
\* for the values format_value and get_object produce.
IsSequence(v) == v.t \in {"list", "tuple"}

\* ----------------------------------------------------------- type registry

\* The modules importlib finds under the package neuralmonkey, each a path
\* of identifiers, and the attributes of each. The model knows one module,
\* neuralmonkey.m.
KnownModules == { << <<"m">> >> }

\* What inspect reports of the callables of neuralmonkey.m: isclass, and
\* getargspec's args, defaults (their number) and keywords; raises tells
\* whether the body raises once its arguments are bound.
\*   class K: def __init__(self, x)
\*   class D: def __init__(self, x, y=0)
\*   class W: def __init__(self, **kw)
\*   class R: def __init__(self, **kw): raise ...
\*   def f(x, y=0)
Self == <<"s", "e", "l", "f">>

Registry ==
  [K |-> [isclass |-> TRUE,  args |-> << Self, <<"x">> >>,
          defaults |-> 0, keywords |-> FALSE, raises |-> FALSE],
   D |-> [isclass |-> TRUE,  args |-> << Self, <<"x">>, <<"y">> >>,
          defaults |-> 1, keywords |-> FALSE, raises |-> FALSE],
   W |-> [isclass |-> TRUE,  args |-> << Self >>,
          defaults |-> 0, keywords |-> TRUE,  raises |-> FALSE],
   R |-> [isclass |-> TRUE,  args |-> << Self >>,
          defaults |-> 0, keywords |-> TRUE,  raises |-> TRUE],
   f |-> [isclass |-> FALSE, args |-> << <<"x">>, <<"y">> >>,
          defaults |-> 1, keywords |-> FALSE, raises |-> FALSE]]

\* getattr(module, class_name) for the module neuralmonkey.m: the registry
\* name of the attribute, or "" when the module has none of that name.
ModuleAttr(class_name) ==
  CASE class_name = <<"K">> -> "K"
    [] class_name = <<"D">> -> "D"
    [] class_name = <<"W">> -> "W"
    [] class_name = <<"R">> -> "R"
    [] class_name = <<"f">> -> "f"
    [] OTHER -> ""

\* ------------------------------------------------------------ format_value

AllDigits(s) == \A n \in 1..Len(s) : IsDigit(s[n])

\* INTEGER = ^[0-9]+$
MatchInteger(s) == Len(s) >= 1 /\ AllDigits(s)

DigitValue(c) ==
  CASE c = "0" -> 0 [] c = "1" -> 1 [] c = "2" -> 2 [] c = "3" -> 3
    [] c = "4" -> 4 [] c = "5" -> 5 [] c = "6" -> 6 [] c = "7" -> 7
    [] c = "8" -> 8 [] c = "9" -> 9

\* int(string) of a string of decimal digits.
RECURSIVE IntOf(_)
IntOf(s) ==
  IF Len(s) = 0 THEN 0 ELSE 10 * IntOf(Front(s)) + DigitValue(Last(s))

\* [+-]?[0-9]+
MatchExponent(s) ==
  LET ds == IF Len(s) >= 1 /\ s[1] \in {"+", "-"} THEN Tail(s) ELSE s
  IN  Len(ds) >= 1 /\ AllDigits(ds)

\* [0-9]*(e[+-]?[0-9]+)?
MatchFraction(s) ==
  \/ AllDigits(s)
  \/ \E q \in 1..Len(s) :
       /\ s[q] = "e"
       /\ AllDigits(SubSeq(s, 1, q - 1))
       /\ MatchExponent(SubSeq(s, q + 1, Len(s)))

\* FLOAT = ^[0-9]*\.[0-9]*(e[+-]?[0-9]+)?$
MatchFloat(s) ==
  \E p \in 1..Len(s) :
    /\ s[p] = "."
    /\ AllDigits(SubSeq(s, 1, p - 1))
    /\ MatchFraction(SubSeq(s, p + 1, Len(s)))

\* float(string) raises ValueError on a string FLOAT matches that has no
\* digit in its mantissa (".", ".e5").
FloatHasMantissa(s) ==
  \E n \in 1..Len(s) :
    /\ IsDigit(s[n])
    /\ \A q \in 1..n : s[q] # "e"

\* string.split("."): the parts between the dots.
RECURSIVE SplitDots(_)
SplitDots(s) ==
  IF \A n \in 1..Len(s) : s[n] # "."
    THEN << s >>
    ELSE LET p == CHOOSE n \in 1..Len(s) :
                    s[n] = "." /\ \A q \in 1..(n - 1) : s[q] # "."
         IN  << SubSeq(s, 1, p - 1) >> \o SplitDots(SubSeq(s, p + 1, Len(s)))

\* _*[a-zA-Z][a-zA-Z0-9_]*
MatchSegment(s) ==
  \E k \in 0..(Len(s) - 1) :
    /\ \A n \in 1..k : s[n] = "_"
    /\ IsAlpha(s[k + 1])
    /\ \A n \in (k + 2)..Len(s) : IsWord(s[n])

\* CLASS_NAME = ^_*[a-zA-Z][a-zA-Z0-9_]*(\._*[a-zA-Z][a-zA-Z0-9_]*)+$
MatchClassName(s) ==
  LET parts == SplitDots(s)
  IN  Len(parts) >= 2 /\ \A n \in 1..Len(parts) : MatchSegment(parts[n])

\* OBJECT_REF = ^<([a-zA-Z][a-zA-Z0-9_]*)>$
MatchObjectRef(s) ==
  /\ Len(s) >= 3
  /\ s[1] = "<"
  /\ Last(s) = ">"
  /\ IsIdent(SubSeq(s, 2, Len(s) - 1))

ObjectRefName(s) == SubSeq(s, 2, Len(s) - 1)

\* The prefix format_value puts before a referenced name.
ObjectPrefix == <<"o", "b", "j", "e", "c", "t", ":">>

\* LIST = \[([^]]*)\] matched at the start of the string (re.match): the
\* string opens with "[" and holds a "]"; the group ends at the first "]".
MatchList(s) ==
  /\ Len(s) >= 2
  /\ s[1] = "["
  /\ \E n \in 2..Len(s) : s[n] = "]"

ListGroup(s) ==
  LET p == CHOOSE n \in 2..Len(s) :
             s[n] = "]" /\ \A q \in 2..(n - 1) : s[q] # "]"
  IN  SubSeq(s, 2, p - 1)

\* TUPLE = \(([^]]+)\) matched at the start of the string: the places a
\* closing ")" may stand, after at least one character, none of them "]".
TupleEnds(s) ==
  {n \in 3..Len(s) : s[n] = ")" /\ \A q \in 2..(n - 1) : s[q] # "]"}

MatchTuple(s) == Len(s) >= 3 /\ s[1] = "(" /\ TupleEnds(s) # {}

\* The group is greedy: it runs to the last such ")".
TupleGroup(s) ==
  LET p == CHOOSE n \in TupleEnds(s) : \A q \in TupleEnds(s) : q <= n
  IN  SubSeq(s, 2, p - 1)

\* What a call of format_value gives: the exception it raises ("none" when
\* it returns) and the value it returns.
Returned(v) == [exc |-> "none", val |-> v]

Raised(e) == [exc |-> e, val |-> NoneVal]

\* The branch of format_value for a dotted name: import the module, then
\* take the attribute.
FormatClassName(s) ==
  LET class_parts == SplitDots(s)
      class_name  == Last(class_parts)
      module_path == Front(class_parts)
      attr        == ModuleAttr(class_name)
  IN  IF module_path \notin KnownModules
        THEN IF Len(module_path) = 1 \/ Front(module_path) \in KnownModules
               THEN Raised("ModuleDoesNotExist")
               ELSE Raised("ImportError")
      ELSE IF attr = ""
        THEN Raised("ClassDoesNotExist")
      ELSE Returned(CallableVal(attr,
                      IF Registry[attr].isclass THEN "type" ELSE "function"))

\* [format_value(val) for val in items]: the first exception raised, or the
\* values in order.
FormatAll(rs) ==
  IF \E n \in 1..Len(rs) : rs[n].exc # "none"
    THEN LET k == CHOOSE n \in 1..Len(rs) :
                    rs[n].exc # "none" /\ \A q \in 1..(n - 1) : rs[q].exc = "none"
         IN  Raised(rs[k].exc)
    ELSE Returned(ListVal([n \in 1..Len(rs) |-> rs[n].val]))

RECURSIVE format_value(_)
format_value(string) ==
  IF string = <<"F","a","l","s","e">> THEN Returned(BoolVal(FALSE))
  ELSE IF string = <<"T","r","u","e">> THEN Returned(BoolVal(TRUE))
  ELSE IF string = <<"N","o","n","e">> THEN Returned(NoneVal)
  ELSE IF MatchInteger(string) THEN Returned(IntVal(IntOf(string)))
  ELSE IF MatchFloat(string)
    THEN IF FloatHasMantissa(string) THEN Returned(FloatVal(string))
                                     ELSE Raised("ValueError")
  ELSE IF MatchClassName(string) THEN FormatClassName(string)
  ELSE IF MatchObjectRef(string)
    THEN Returned(StrVal(ObjectPrefix \o ObjectRefName(string)))
  ELSE IF MatchList(string)
    THEN LET matched_content == ListGroup(string)
             split == split_on_commas(matched_content)
             all == FormatAll([n \in 1..Len(split.items) |->
                                 format_value(split.items[n])])
         IN  IF matched_content = <<>> THEN Returned(ListVal(<<>>))
             ELSE IF split.exc # "none" THEN Raised(split.exc)
             ELSE IF all.exc # "none" THEN all
             ELSE IF Cardinality({all.val.elems[n].t :
                                    n \in 1..Len(all.val.elems)}) > 1
               THEN Raised("ListNotOfSameType")
             ELSE all
  ELSE IF MatchTuple(string)
    THEN LET split == split_on_commas(TupleGroup(string))
             all == FormatAll([n \in 1..Len(split.items) |->
                                 format_value(split.items[n])])
         IN  IF split.exc # "none" THEN Raised(split.exc)
             ELSE IF all.exc # "none" THEN all
             ELSE Returned(TupleVal(all.val.elems))
  ELSE Returned(StrVal(string))


\* -------------------------------------------------------- get_config_dicts

Whitespace == {" ", "\t", "\n"}

\* line.strip()
RECURSIVE StripLeft(_)
StripLeft(s) ==
  IF Len(s) >= 1 /\ s[1] \in Whitespace THEN StripLeft(Tail(s)) ELSE s

RECURSIVE StripRight(_)
StripRight(s) ==
  IF Len(s) >= 1 /\ Last(s) \in Whitespace THEN StripRight(Front(s)) ELSE s

Strip(s) == StripRight(StripLeft(s))

\* re.sub(r"#.*", "", line): the line up to its first "#".
StripComment(s) ==
  IF \A n \in 1..Len(s) : s[n] # "#"
    THEN s
    ELSE LET p == CHOOSE n \in 1..Len(s) :
                    s[n] = "#" /\ \A q \in 1..(n - 1) : s[q] # "#"
         IN  SubSeq(s, 1, p - 1)

TimeToken == <<"$", "T", "I", "M", "E">>

\* time.strftime("%Y-%m-%d-%H-%M-%S"), read once before the loop.
time_stamp ==
  <<"2","0","1","6","-","0","1","-","0","1","-","0","0","-","0","0","-",
    "0","0">>

\* re.sub(r"\$TIME", time_stamp, line)
RECURSIVE SubTime(_)
SubTime(s) ==
  IF Len(s) = 0 THEN s
  ELSE IF StartsWith(s, TimeToken)
    THEN time_stamp \o SubTime(SliceFrom(s, Len(TimeToken)))
  ELSE << s[1] >> \o SubTime(Tail(s))

\* OBJECT_NAME = ^\[([a-zA-Z][a-zA-Z0-9_]*)\]$
MatchObjectName(s) ==
  /\ Len(s) >= 3
  /\ s[1] = "["
  /\ Last(s) = "]"
  /\ IsIdent(SubSeq(s, 2, Len(s) - 1))

ObjectNameGroup(s) == SubSeq(s, 2, Len(s) - 1)

\* The length of the longest prefix of word characters.
RECURSIVE WordPrefix(_)
WordPrefix(s) ==
  IF Len(s) >= 1 /\ IsWord(s[1]) THEN 1 + WordPrefix(Tail(s)) ELSE 0

\* str.lstrip(" ") of the text, as " *" consumes it.
RECURSIVE SkipSpaces(_)
SkipSpaces(s) ==
  IF Len(s) >= 1 /\ s[1] = " " THEN SkipSpaces(Tail(s)) ELSE s

\* KEY_VALUE_PAIR = ^([a-zA-Z][a-zA-Z0-9_]*) *= *(.+)$ : the key is the
\* longest prefix of word characters, "=" follows it after spaces, and the
\* value is what follows the "=" and the spaces after it; when only spaces
\* follow the "=", " *" gives the last of them back to ".+".
KeyOf(s) == SubSeq(s, 1, WordPrefix(s))

AfterKey(s) == SkipSpaces(SliceFrom(s, WordPrefix(s)))

AfterEquals(s) == Tail(AfterKey(s))

MatchKeyValuePair(s) ==
  /\ IsIdent(KeyOf(s))
  /\ Len(AfterKey(s)) >= 1
  /\ AfterKey(s)[1] = "="
  /\ Len(AfterEquals(s)) >= 1
  /\ \A n \in 1..Len(AfterEquals(s)) : AfterEquals(s)[n] # "\n"

ValueStringOf(s) ==
  IF SkipSpaces(AfterEquals(s)) = <<>>
    THEN << " " >>
    ELSE SkipSpaces(AfterEquals(s))

\* A dict is the sequence of its items in insertion order; these are
\* key in d, d[key] and d[key] = value for a key not in d.
HasKey(d, key) == \E n \in 1..Len(d) : d[n].key = key

Lookup(d, key) == d[CHOOSE n \in 1..Len(d) : d[n].key = key].value

Insert(d, key, value) == Append(d, [key |-> key, value |-> value])

\* current_name before the first section: Python's None. No section has the
\* empty name.
NoName == <<>>

NoError == [type |-> "none", line |-> -1, message |-> "", original |-> "none"]

IniSyntaxError(line, message, original_exc) ==
  [type |-> "IniSyntaxError", line |-> line, message |-> message,
   original |-> original_exc]

\* The locals of get_config_dicts before the loop; config_dicts maps each
\* section name to its dict.
ParseStart ==
  [config_dicts |-> << >>, current_name |-> NoName, exc |-> NoError]

\* One iteration of the loop of get_config_dicts: the line at 0-based index
\* n of the file.
ParseLine(st, n, raw) ==
  LET line == SubTime(StripComment(Strip(raw)))
      name == ObjectNameGroup(line)
      key  == KeyOf(line)
      formatted == format_value(ValueStringOf(line))
  IN  IF line = <<>> THEN st
      ELSE IF line[1] = ";" THEN st
      ELSE IF MatchObjectName(line)
        THEN IF name \in DOMAIN st.config_dicts
               THEN [st EXCEPT !.current_name = name,
                               !.exc = IniSyntaxError(n, "Duplicit object key", "none")]
               ELSE [st EXCEPT !.current_name = name,
                               !.config_dicts = (name :> << >>) @@ @]
      ELSE IF MatchKeyValuePair(line)
        THEN IF st.current_name \notin DOMAIN st.config_dicts
               THEN [st EXCEPT !.exc = IniSyntaxError(n, "Error", "KeyError")]
             ELSE IF HasKey(st.config_dicts[st.current_name], key)
               THEN [st EXCEPT !.exc = IniSyntaxError(n, "Duplicit key", "none")]
             ELSE IF formatted.exc # "none"
               THEN [st EXCEPT !.exc = IniSyntaxError(n, "Error", formatted.exc)]
             ELSE [st EXCEPT !.config_dicts[st.current_name] =
                               Insert(@, key, formatted.val)]
      ELSE [st EXCEPT !.exc = IniSyntaxError(n, "Unknown string", "none")]

RECURSIVE ParseFrom(_, _, _)
ParseFrom(st, file, n) ==
  IF st.exc.type # "none" \/ n = Len(file) THEN [locals |-> st, n |-> n]
  ELSE ParseFrom(ParseLine(st, n, file[n + 1]), file, n + 1)

\* get_config_dicts(config_file): the final locals and the number of lines
\* read; locals.config_dicts is the mapping returned when
\* locals.exc.type = "none".
get_config_dicts(file) == ParseFrom(ParseStart, file, 0)


\* ------------------------------------------------------------------- state

VARIABLES
  string,           \* split_on_commas: its argument
  split_n,          \* split_on_commas: the number of characters consumed
  split_locals,     \* split_on_commas: items, char_buffer, openings, and
                    \*   the exception raised
  split_pc,         \* split_on_commas: "idle", "loop", "returned", "raised"
  config_file,      \* the lines of the file not read yet
  parse_n,          \* get_config_dicts: the number of lines consumed
  parse_locals,     \* get_config_dicts: config_dicts, current_name, and
                    \*   the exception raised
  parse_pc,         \* get_config_dicts: "idle", "loop", "returned", "raised"
  ignore_names,     \* load_config_file: its second argument
  config_dicts,     \* load_config_file: what get_config_dicts returned
  existing_objects, \* load_config_file: the cache of built objects
  configuration,    \* load_config_file: the dict being filled
  main_n,           \* load_config_file: the number of main keys consumed
  stack,            \* the activations of get_object, outermost first
  load_pc,          \* load_config_file: "idle", "start", "main_loop",
                    \*   "returned", "raised"
  load_exc,         \* load_config_file: the exception it raised
  constructed,      \* the sections whose clazz(**args) was called, in order
  returned          \* the last return of get_object: its value argument,
                    \*   its depth and what it returned

splitVars == <<string, split_n, split_locals, split_pc>>

parseVars == <<parse_n, parse_locals, parse_pc>>

loadVars ==
  <<ignore_names, config_dicts, existing_objects, configuration, main_n,
    stack, load_pc, load_exc, constructed, returned>>

vars == <<splitVars, config_file, parseVars, loadVars>>

\* -------------------------------------------------------------- get_object

\* The deepest recursion get_object accepts.
MaxDepth == 20

ClassKey == <<"c", "l", "a", "s", "s">>

MainName == <<"m", "a", "i", "n">>

InstanceVal(id, name, kwargs) ==
  [t |-> "instance", id |-> id, section |-> name, kwargs |-> kwargs]

\* value in ignore_names, for a set of strs.
InIgnore(value, names) == IsStr(value) /\ value.s \in names

\* A get_object that never finds a value in the cache.
InCacheNever(value, cache) == FALSE

\* value in existing_objects: the cache has str keys only.
InCache(value, cache) == IsStr(value) /\ value.s \in DOMAIN cache

\* A get_object that stores nothing in the cache.
StoreNothing(cache, key, result) == cache

\* existing_objects[key] = result
StoreObject(cache, key, result) ==
  [x \in (DOMAIN cache) \cup {key} |-> IF x = key THEN result ELSE cache[x]]

\* not isinstance(value, str) or not value.startswith("object:")
NotAReference(value) == ~IsStr(value) \/ ~StartsWith(value.s, ObjectPrefix)

\* value[7:]
ReferencedName(value) == SliceFrom(value.s, 7)

\* A get_object without the test of the depth.
TooDeepNever(depth) == FALSE

\* A get_object that rejects depth 20 too.
TooDeepFromLimit(depth) == depth >= MaxDepth

\* depth > 20
TooDeep(depth) == depth > MaxDepth

\* isclass(clazz) or isfunction(clazz)
IsCallable(clazz) == clazz.t \in {"type", "function"}

\* The items of this_dict with k != 'class', in the order of the dict.
ArgItems(this_dict) == SelectSeq(this_dict, LAMBDA it : it.key # ClassKey)

\* The stop of the slice args[...:-d] of a list of length len: -0 is 0.
NegativeStop(len, d) ==
  IF d = 0 THEN 0 ELSE IF len - d < 0 THEN 0 ELSE len - d

\* required_args as first computed: set(arg_spec.args[1:-len(defaults)]) when
\* the first parameter is self, set(arg_spec.args[:-len(defaults)]) otherwise.
RequiredArgs(arg_spec) ==
  Range(Slice(arg_spec.args,
              IF arg_spec.args[1] = Self THEN 1 ELSE 0,
              NegativeStop(Len(arg_spec.args), arg_spec.defaults)))

\* Python's binding of clazz(**args): the parameters the call may name, and
\* those it must.
CallParams(arg_spec) ==
  Range(IF arg_spec.isclass THEN Tail(arg_spec.args) ELSE arg_spec.args)

CallRequired(arg_spec) ==
  LET ps == IF arg_spec.isclass THEN Tail(arg_spec.args) ELSE arg_spec.args
  IN  Range(SubSeq(ps, 1, Len(ps) - arg_spec.defaults))

\* clazz(**args) binds its arguments (no TypeError).
CallBinds(arg_spec, keys) ==
  /\ CallRequired(arg_spec) \subseteq keys
  /\ arg_spec.keywords \/ keys \subseteq CallParams(arg_spec)
  /\ ~(arg_spec.isclass /\ Self \in keys)

NoCause == [type |-> "none", name |-> <<>>, args |-> {}, original |-> "none"]

\* An exception raised in get_object: its type or message, the section it
\* names, the argument names it lists, and the exception it wraps.
Cause(type, name, args, original) ==
  [type |-> type, name |-> name, args |-> args, original |-> original]

NoLoadError == [type |-> "none", object_name |-> <<>>, original |-> NoCause]

Frame(value, depth) ==
  [value |-> value, depth |-> depth, pc |-> "enter", k |-> 1, acc |-> <<>>]

NothingReturned == [value |-> NoneVal, depth |-> -1, result |-> NoneVal]

Top == stack[Len(stack)]

\* main_config.items()
MainItems == config_dicts[MainName]

\* get_object returns result to its caller: the activation below it, which
\* goes on with its next element or argument, or load_config_file, which
\* stores it under the main key and goes on with the next key.
Return(result) ==
  /\ returned' = [value |-> Top.value, depth |-> Top.depth, result |-> result]
  /\ IF Len(stack) = 1
       THEN /\ stack' = <<>>
            /\ configuration' =
                 Insert(configuration, MainItems[main_n + 1].key, result)
            /\ main_n' = main_n + 1
       ELSE /\ stack' = [Front(stack) EXCEPT ![Len(stack) - 1] =
                           [@ EXCEPT !.acc = Append(@, result), !.k = @ + 1]]
            /\ UNCHANGED <<configuration, main_n>>
  /\ UNCHANGED <<load_pc, load_exc>>

\* get_object raises: no activation of get_object catches it, and
\* load_config_file wraps it with the main key and raises.
Raise(cause) ==
  /\ stack' = <<>>
  /\ load_pc' = "raised"
  /\ load_exc' = [type |-> "ConfigBuildException",
                  object_name |-> MainItems[main_n + 1].key,
                  original |-> cause]
  /\ UNCHANGED <<configuration, main_n, returned>>

\* get_object from its first line to the processing of the arguments.
GetObjectEnter ==
  /\ load_pc = "main_loop"
  /\ UNCHANGED <<splitVars, config_file, parseVars>>
  /\ stack # <<>>
  /\ Top.pc = "enter"
  /\ UNCHANGED <<ignore_names, config_dicts, constructed>>
  /\ LET value == Top.value
         name  == ReferencedName(value)
     IN  IF IsSequence(value)
           THEN /\ stack' = [stack EXCEPT ![Len(stack)].pc = "elems"]
                /\ UNCHANGED <<existing_objects, configuration, main_n,
                               load_pc, load_exc, returned>>
         ELSE IF InIgnore(value, ignore_names)
           THEN /\ existing_objects' =
                     StoreObject(existing_objects, value.s, NoneVal)
                /\ Return(NoneVal)
         ELSE IF InCache(value, existing_objects)
           THEN /\ UNCHANGED existing_objects
                /\ Return(existing_objects[value.s])
         ELSE IF NotAReference(value)
           THEN /\ UNCHANGED existing_objects
                /\ Return(value)
         ELSE IF name \notin DOMAIN config_dicts
           THEN /\ UNCHANGED existing_objects
                /\ Raise(Cause("NotDefined", name, {}, "none"))
         ELSE IF TooDeep(Top.depth)
           THEN /\ UNCHANGED existing_objects
                /\ Raise(Cause("TooDeep", name, {}, "none"))
         ELSE IF ~HasKey(config_dicts[name], ClassKey)
           THEN /\ UNCHANGED existing_objects
                /\ Raise(Cause("ClassNotDefined", name, {}, "none"))
         ELSE IF ~IsCallable(Lookup(config_dicts[name], ClassKey))
           THEN /\ UNCHANGED existing_objects
                /\ Raise(Cause("NotCallable", name, {}, "none"))
         ELSE /\ stack' = [stack EXCEPT ![Len(stack)].pc = "args"]
              /\ UNCHANGED <<existing_objects, configuration, main_n,
                             load_pc, load_exc, returned>>

\* The comprehension over a sequence: the call for the next element, at
\* depth + 1, or the return of the list of the results.
GetObjectElement ==
  /\ load_pc = "main_loop"
  /\ UNCHANGED <<splitVars, config_file, parseVars>>
  /\ stack # <<>>
  /\ Top.pc = "elems"
  /\ UNCHANGED <<ignore_names, config_dicts, existing_objects, constructed>>
  /\ IF Top.k <= Len(Top.value.elems)
       THEN /\ stack' = Append(stack, Frame(Top.value.elems[Top.k], Top.depth + 1))
            /\ UNCHANGED <<configuration, main_n, load_pc, load_exc, returned>>
       ELSE Return(ListVal(Top.acc))

\* process_arg for the next argument of the section: the call at depth + 1.
GetObjectArgument ==
  /\ load_pc = "main_loop"
  /\ UNCHANGED <<splitVars, config_file, parseVars>>
  /\ stack # <<>>
  /\ Top.pc = "args"
  /\ Top.k <= Len(ArgItems(config_dicts[ReferencedName(Top.value)]))
  /\ stack' = Append(stack,
       Frame(ArgItems(config_dicts[ReferencedName(Top.value)])[Top.k].value,
             Top.depth + 1))
  /\ UNCHANGED <<ignore_names, config_dicts, existing_objects, configuration,
                 main_n, load_pc, load_exc, constructed, returned>>

\* get_object once every argument is resolved: the check of the argument
\* names against the signature, the call of the class and the store in the
\* cache.
GetObjectConstruct ==
  /\ load_pc = "main_loop"
  /\ UNCHANGED <<splitVars, config_file, parseVars>>
  /\ stack # <<>>
  /\ Top.pc = "args"
  /\ Top.k > Len(ArgItems(config_dicts[ReferencedName(Top.value)]))
  /\ UNCHANGED <<ignore_names, config_dicts>>
  /\ LET name     == ReferencedName(Top.value)
         items    == ArgItems(config_dicts[name])
         clazz    == Lookup(config_dicts[name], ClassKey)
         arg_spec == Registry[clazz.callable]
         args     == [n \in 1..Len(items) |->
                        [key |-> items[n].key, value |-> Top.acc[n]]]
         keys     == {items[n].key : n \in 1..Len(items)}
         missing  == RequiredArgs(arg_spec) \ keys
         additional == keys \ Range(arg_spec.args)
         result   == InstanceVal(Len(constructed) + 1, name, args)
     IN  IF ~arg_spec.keywords /\ Len(arg_spec.args) = 0
           THEN /\ UNCHANGED <<existing_objects, constructed>>
                /\ Raise(Cause("IndexError", name, {}, "none"))
         ELSE IF ~arg_spec.keywords /\ missing # {}
           THEN /\ UNCHANGED <<existing_objects, constructed>>
                /\ Raise(Cause("MissingRequiredArgs", name, missing, "none"))
         ELSE IF ~arg_spec.keywords /\ additional # {}
           THEN /\ UNCHANGED <<existing_objects, constructed>>
                /\ Raise(Cause("UnexpectedArgument", name, additional, "none"))
         ELSE /\ constructed' = Append(constructed, name)
              /\ IF ~CallBinds(arg_spec, keys)
                   THEN /\ UNCHANGED existing_objects
                        /\ Raise(Cause("ConfigBuildException", name, {}, "TypeError"))
                 ELSE IF arg_spec.raises
                   THEN /\ UNCHANGED existing_objects
                        /\ Raise(Cause("ConfigBuildException", name, {}, "Exception"))
                 ELSE /\ existing_objects' =
                           StoreObject(existing_objects, Top.value.s, result)
                      /\ Return(result)

\* -------------------------------------------------------- load_config_file

\* load_config_file up to its loop: the parse, which reads the file to the
\* line that raises or to its end, and the test for main.
LoadParse ==
  /\ load_pc = "start"
  /\ LET parsed == get_config_dicts(config_file)
     IN  /\ parse_locals' = parsed.locals
         /\ parse_n' = parsed.n
         /\ config_file' = SliceFrom(config_file, parsed.n)
         /\ IF parsed.locals.exc.type # "none"
              THEN /\ load_pc' = "raised"
                   /\ load_exc' = [NoLoadError EXCEPT !.type = "IniSyntaxError"]
                   /\ UNCHANGED config_dicts
            ELSE IF MainName \notin DOMAIN parsed.locals.config_dicts
              THEN /\ load_pc' = "raised"
                   /\ load_exc' = [NoLoadError EXCEPT !.type = "NoMainBlock"]
                   /\ config_dicts' = parsed.locals.config_dicts
            ELSE /\ load_pc' = "main_loop"
                 /\ config_dicts' = parsed.locals.config_dicts
                 /\ UNCHANGED load_exc
  /\ UNCHANGED <<splitVars, parse_pc, ignore_names, existing_objects,
                 configuration, main_n, stack, constructed, returned>>

\* One iteration of the loop over main_config.items(): a key in ignore_names
\* is passed over, any other has its value resolved at depth 0.
LoadMainKey ==
  /\ load_pc = "main_loop"
  /\ stack = <<>>
  /\ main_n < Len(MainItems)
  /\ IF MainItems[main_n + 1].key \in ignore_names
       THEN /\ main_n' = main_n + 1
            /\ UNCHANGED stack
       ELSE /\ stack' = << Frame(MainItems[main_n + 1].value, 0) >>
            /\ UNCHANGED main_n
  /\ UNCHANGED <<splitVars, config_file, parseVars, ignore_names, config_dicts,
                 existing_objects, configuration, load_pc, load_exc,
                 constructed, returned>>

\* return configuration
LoadReturn ==
  /\ load_pc = "main_loop"
  /\ stack = <<>>
  /\ main_n = Len(MainItems)
  /\ load_pc' = "returned"
  /\ UNCHANGED <<splitVars, config_file, parseVars, ignore_names, config_dicts,
                 existing_objects, configuration, main_n, stack, load_exc,
                 constructed, returned>>

\* ------------------------------------------------- split_on_commas, stepped

SplitLoop ==
  /\ split_pc = "loop"
  /\ split_n < Len(string)
  /\ split_locals' = SplitChar(split_locals, split_n, string[split_n + 1])
  /\ split_n' = split_n + 1
  /\ split_pc' = IF split_locals'.exc # "none" THEN "raised" ELSE "loop"
  /\ UNCHANGED <<string, config_file, parseVars, loadVars>>

SplitReturn ==
  /\ split_pc = "loop"
  /\ split_n = Len(string)
  /\ split_locals' = SplitEnd(split_locals)
  /\ split_pc' = "returned"
  /\ UNCHANGED <<string, split_n, config_file, parseVars, loadVars>>

\* ------------------------------------------------ get_config_dicts, stepped

ParseLoop ==
  /\ parse_pc = "loop"
  /\ config_file # << >>
  /\ parse_locals' = ParseLine(parse_locals, parse_n, Head(config_file))
  /\ config_file' = Tail(config_file)
  /\ parse_n' = parse_n + 1
  /\ parse_pc' = IF parse_locals'.exc.type # "none" THEN "raised" ELSE "loop"
  /\ UNCHANGED <<splitVars, loadVars>>

\* config_file.close(); return config_dicts
ParseReturn ==
  /\ parse_pc = "loop"
  /\ config_file = << >>
  /\ parse_pc' = "returned"
  /\ UNCHANGED <<splitVars, config_file, parse_n, parse_locals, loadVars>>

\* ------------------------------------------------------------------ inputs

\* The sequences over S of length at most n.
SeqsUpTo(S, n) == UNION {[1..m -> S] : m \in 0..n}

\* The characters of the inputs of split_on_commas.
SplitChars == {",", " ", "(", ")", "[", "]", "a"}

SplitInputs == SeqsUpTo(SplitChars, MaxLen)

Header(name) == <<"[">> \o name \o <<"]">>

KeyValue(key, text) == key \o <<"=">> \o text

\* The lines of the files of SpecParse.
ParseLinePool ==
  { Header(<<"a">>),
    <<" ">> \o Header(<<"a">>) \o <<" ", "\n">>,
    Header(<<"b">>),
    KeyValue(<<"x">>, <<"1">>),
    <<"x", " ", "=", " ", "<", "a", ">">>,
    KeyValue(<<"y">>, <<"$", "T", "I", "M", "E">>),
    KeyValue(<<"y">>, <<"[", "1", ",", "b", "]">>),
    <<>>,
    <<";", "c">>,
    Header(<<"b">>) \o <<" ", "#", "c">> }

ParseInputs == SeqsUpTo(ParseLinePool, MaxLines)

\* Value texts.
RefA == <<"<", "a", ">">>

RefB == <<"<", "b", ">">>

RawA == <<"a">>

ListBA == <<"[", "<", "b", ">", ",", " ", "<", "a", ">", "]">>

TupleBA == <<"(", "<", "b", ">", ",", "a", ")">>

TupleB1 == <<"(", "<", "b", ">", ",", "1", ")">>

ClassText(c) == <<"m", ".", c>>

NestedA == <<"(", "(", "<", "a", ">", ")", ",", "1", ")">>

ValueTexts ==
  { RefA, RefB, RawA, ListBA, TupleBA, TupleB1, NestedA, <<"1">>,
    <<"1", ".", "5">>,
    <<"N", "o", "n", "e">>, <<"T", "r", "u", "e">>, ClassText("K"),
    <<"[", "]">>, ObjectPrefix \o <<"b">> }

ArgDigits == <<"1", "2", "3", "4", "5", "6", "7", "8", "9">>

\* The key of the n-th argument of a section of a graph file.
ArgKey(n) == <<"p", ArgDigits[n]>>

\* The lines of a section: its header, its class line (none for an empty
\* text) and a line for each argument.
SectionLines(name, class_text, arg_lines) ==
  << Header(name) >>
  \o (IF class_text = <<>> THEN <<>> ELSE << KeyValue(ClassKey, class_text) >>)
  \o arg_lines

PositionalArgs(texts) == [n \in 1..Len(texts) |-> KeyValue(ArgKey(n), texts[n])]

\* The texts of the arguments of section a and of section b in a graph file.
GraphTextsA == {RefA, RefB, ListBA}

GraphTextsB == {RefA, RefB}

\* The texts of the value of the second main key in a graph file: an empty
\* text stands for a main block without that key.
SecondKeyTexts == {<<>>, RefA, RefB}

\* The argument texts of section b in a graph file; the file has no section
\* b when absent.
OptionalLines(present, lines) == IF present THEN lines ELSE <<>>

\* A file that varies the shape of the reference graph: main refers to a,
\* and to a or b under a second key; a and b, of a class that takes any
\* argument, refer to each other and to themselves, directly and inside a
\* list; b may be absent.
GraphFile(j, a_texts, has_b, b_texts) ==
  SectionLines(MainName, <<>>,
     << KeyValue(<<"k">>, RefA) >>
     \o OptionalLines(j # <<>>, << KeyValue(<<"j">>, j) >>))
  \o SectionLines(<<"a">>, ClassText("W"), PositionalArgs(a_texts))
  \o OptionalLines(has_b,
       SectionLines(<<"b">>, ClassText("W"), PositionalArgs(b_texts)))

\* A file that varies the kind of a value: under a main key and as the
\* argument of a section.
ValueFile(k, x) ==
  SectionLines(MainName, <<>>,
     << KeyValue(<<"k">>, k), KeyValue(<<"j">>, RefA) >>)
  \o SectionLines(<<"a">>, ClassText("W"), << KeyValue(<<"x">>, x) >>)
  \o SectionLines(<<"b">>, ClassText("W"), <<>>)

\* The class texts of the signature files: no class line, a value that is
\* no class, and the callables of the registry.
SignatureClassTexts ==
  { <<>>, <<"1">>, ClassText("K"), ClassText("D"), ClassText("W"),
    ClassText("R"), ClassText("f") }

SignatureKeys == {"x", "y", "z"}

\* A file that varies the class of a section and the names of its arguments.
SignatureFile(c, ks) ==
  SectionLines(MainName, <<>>, << KeyValue(<<"k">>, RefA) >>)
  \o SectionLines(<<"a">>, c,
       SelectSeq(<< KeyValue(<<"x">>, <<"1">>), KeyValue(<<"y">>, <<"2">>),
                    KeyValue(<<"z">>, <<"3">>) >>,
                 LAMBDA line : line[1] \in ks))

\* Files the parser or the test for main rejects.
BrokenFiles ==
  { << Header(<<"a">>), Header(<<"a">>) >>,
    << Header(<<"a">>), KeyValue(ClassKey, ClassText("W")) >> }

\* config_file is one of the files above.
IsLoadFile(file) ==
  \/ \E j \in SecondKeyTexts, a_texts \in SeqsUpTo(GraphTextsA, MaxArgs),
        b_texts \in SeqsUpTo(GraphTextsB, MaxArgs) :
       file = GraphFile(j, a_texts, TRUE, b_texts)
  \/ \E j \in SecondKeyTexts, a_texts \in SeqsUpTo(GraphTextsA, MaxArgs) :
       file = GraphFile(j, a_texts, FALSE, <<>>)
  \/ \E k \in ValueTexts, x \in ValueTexts : file = ValueFile(k, x)
  \/ \E c \in SignatureClassTexts, ks \in SUBSET SignatureKeys :
       file = SignatureFile(c, ks)
  \/ file \in BrokenFiles

\* The sets of names a caller asks to ignore.
IgnoreSets == { {}, {<<"a">>}, {<<"j">>} }

\* ---------------------------------------------------------- specifications

SplitIdle ==
  /\ string = <<>>
  /\ split_n = 0
  /\ split_locals = SplitStart
  /\ split_pc = "idle"

ParseIdle ==
  /\ parse_n = 0
  /\ parse_locals = ParseStart
  /\ parse_pc = "idle"

LoadIdle ==
  /\ ignore_names = {}
  /\ config_dicts = << >>
  /\ existing_objects = << >>
  /\ configuration = << >>
  /\ main_n = 0
  /\ stack = << >>
  /\ load_pc = "idle"
  /\ load_exc = NoLoadError
  /\ constructed = << >>
  /\ returned = NothingReturned

\* A call of load_config_file(config_file, ignore_names).
Init ==
  /\ SplitIdle
  /\ ParseIdle
  /\ IsLoadFile(config_file)
  /\ ignore_names \in IgnoreSets
  /\ config_dicts = << >>
  /\ existing_objects = << >>
  /\ configuration = << >>
  /\ main_n = 0
  /\ stack = << >>
  /\ load_pc = "start"
  /\ load_exc = NoLoadError
  /\ constructed = << >>
  /\ returned = NothingReturned

Next ==
  \/ LoadParse
  \/ LoadMainKey
  \/ LoadReturn
  \/ GetObjectEnter
  \/ GetObjectElement
  \/ GetObjectArgument
  \/ GetObjectConstruct

Spec == Init /\ [][Next]_vars

\* A call of split_on_commas(string).
InitSplit ==
  /\ string \in SplitInputs
  /\ split_n = 0
  /\ split_locals = SplitStart
  /\ split_pc = "loop"
  /\ config_file = << >>
  /\ ParseIdle
  /\ LoadIdle

NextSplit == SplitLoop \/ SplitReturn

SpecSplit == InitSplit /\ [][NextSplit]_vars

\* A call of get_config_dicts(config_file).
InitParse ==
  /\ SplitIdle
  /\ config_file \in ParseInputs
  /\ parse_n = 0
  /\ parse_locals = ParseStart
  /\ parse_pc = "loop"
  /\ LoadIdle

NextParse == ParseLoop \/ ParseReturn

SpecParse == InitParse /\ [][NextParse]_vars


\* ------------------------------------------------------- the reference graph

LoadDone == load_pc \in {"returned", "raised"}

\* The file was parsed and has a main block: the loop over main has begun.
Resolving == MainName \in DOMAIN config_dicts

IsReference(value) == ~IsSequence(value) /\ ~NotAReference(value)

\* The names a value refers to, directly or inside a list or tuple.
RECURSIVE RefsIn(_)
RefsIn(value) ==
  IF IsSequence(value)
    THEN UNION {RefsIn(value.elems[n]) : n \in 1..Len(value.elems)}
  ELSE IF IsReference(value) THEN {ReferencedName(value)}
  ELSE {}

\* The names the arguments of section s refer to.
SectionRefs(s) ==
  IF s \in DOMAIN config_dicts
    THEN UNION {RefsIn(ArgItems(config_dicts[s])[n].value) :
                  n \in 1..Len(ArgItems(config_dicts[s]))}
    ELSE {}

\* The names the main keys that are not ignored refer to.
MainRefs ==
  UNION {RefsIn(MainItems[n].value) :
           n \in {m \in 1..Len(MainItems) : MainItems[m].key \notin ignore_names}}

RECURSIVE ReachFrom(_)
ReachFrom(S) ==
  LET more == S \cup UNION {SectionRefs(s) : s \in S}
  IN  IF more = S THEN S ELSE ReachFrom(more)

\* The names reachable from the main keys that are not ignored.
Reachable == IF Resolving THEN ReachFrom(MainRefs) ELSE {}

\* Section s lies on a reference cycle.
OnCycle(s) == s \in DOMAIN config_dicts /\ s \in ReachFrom(SectionRefs(s))

CycleReached == \E s \in Reachable : OnCycle(s)

\* The class of section s, the names of its arguments and the signature of
\* its class, for a section with a callable class.
HasCallableClass(s) ==
  /\ s \in DOMAIN config_dicts
  /\ HasKey(config_dicts[s], ClassKey)
  /\ IsCallable(Lookup(config_dicts[s], ClassKey))

SignatureOf(s) == Registry[Lookup(config_dicts[s], ClassKey).callable]

ArgNames(s) ==
  {ArgItems(config_dicts[s])[n].key : n \in 1..Len(ArgItems(config_dicts[s]))}

\* Section s alone raises nothing: it is defined, its class is callable and
\* takes the arguments the section gives, and its constructor succeeds.
BuildsAlone(s) ==
  /\ HasCallableClass(s)
  /\ CallBinds(SignatureOf(s), ArgNames(s))
  /\ ~SignatureOf(s).raises

\* How deep lists and tuples nest in a value, and in the values of the file.
RECURSIVE NestingOf(_)
NestingOf(value) ==
  IF ~IsSequence(value) THEN 0
  ELSE LET inner == {NestingOf(value.elems[n]) : n \in 1..Len(value.elems)}
       IN  1 + (IF inner = {} THEN 0
                ELSE CHOOSE d \in inner : \A e \in inner : e <= d)

MaxNesting ==
  LET all == {0} \cup UNION {{NestingOf(config_dicts[s][n].value) :
                               n \in 1..Len(config_dicts[s])} :
                             s \in DOMAIN config_dicts}
  IN  CHOOSE d \in all : \A e \in all : e <= d

\* The cause of the failure of the load.
FailedWith(type) == load_pc = "raised" /\ load_exc.original.type = type

\* ------------------------------------------------------------- properties

\* C1: within one load the constructor of a section is called at most once,
\* and every reference to the section, under a main key, as an argument or
\* inside a list or tuple, resolves to the one instance the cache holds
\* under that reference.
RECURSIVE ResolvedAs(_, _)
ResolvedAs(value, result) ==
  IF IsSequence(value)
    THEN /\ result.t = "list"
         /\ Len(result.elems) = Len(value.elems)
         /\ \A n \in 1..Len(value.elems) :
              ResolvedAs(value.elems[n], result.elems[n])
  ELSE IF IsReference(value) /\ value.s \notin ignore_names
    THEN /\ value.s \in DOMAIN existing_objects
         /\ result = existing_objects[value.s]
         /\ result.t = "instance"
         /\ result.section = ReferencedName(value)
         /\ constructed[result.id] = result.section
         /\ \A n \in 1..Len(result.kwargs) :
              ResolvedAs(ArgItems(config_dicts[result.section])[n].value,
                         result.kwargs[n].value)
  ELSE TRUE

C1_Singleton ==
  /\ \A m, n \in 1..Len(constructed) :
       constructed[m] = constructed[n] => m = n
  /\ returned.depth >= 0 => ResolvedAs(returned.value, returned.result)
  /\ \A n \in 1..Len(configuration) :
       \E m \in 1..Len(MainItems) :
         /\ MainItems[m].key = configuration[n].key
         /\ ResolvedAs(MainItems[m].value, configuration[n].value)

\* C1 witness: a load returned a configuration in which two main keys hold
\* the same instance, whose constructor was called once.
C1_Witness ==
  /\ load_pc = "returned"
  /\ Len(configuration) = 2
  /\ configuration[1].value.t = "instance"
  /\ configuration[1].value = configuration[2].value
  /\ Len(configuration[1].value.kwargs) = 2
  /\ configuration[1].value.kwargs[1].value
       = configuration[1].value.kwargs[2].value
  /\ configuration[1].value.kwargs[1].value.t = "instance"

AtDepthGuard ==
  /\ load_pc = "main_loop"
  /\ stack # << >>
  /\ Top.pc = "enter"
  /\ IsReference(Top.value)
  /\ Top.value.s \notin ignore_names
  /\ Top.value.s \notin DOMAIN existing_objects
  /\ ReferencedName(Top.value) \in DOMAIN config_dicts

\* Main keys are resolved at depth 0, an argument or element one deeper than
\* its owner.
DepthsNest ==
  \A n \in 1..Len(stack) : stack[n].depth = n - 1

\* C8 as stated: a reference to a section met at depth d is rejected as too
\* deep exactly when d + 1 exceeds 20.
C8_Original ==
  /\ []DepthsNest
  /\ [][AtDepthGuard => (FailedWith("TooDeep")' <=> Top.depth + 1 > MaxDepth)]_vars

\* C8 as amended: a reference to a section met at depth d is rejected as too
\* deep exactly when d exceeds 20: one met at depth 21 is rejected and one at
\* depth 20 is not.
C8_DepthGuard ==
  /\ []DepthsNest
  /\ [][AtDepthGuard => (FailedWith("TooDeep")' <=> Top.depth > MaxDepth)]_vars

\* C8 witness: a reference met at depth 20 passed the guard and has its
\* arguments processed.
C8_Witness ==
  /\ stack # << >>
  /\ Top.depth = MaxDepth
  /\ Top.pc = "args"

\* C10: the constructor of a section is called only after every section its
\* arguments refer to was constructed and stored in the cache; the cache
\* holds a section only once its own constructor returned; only sections
\* reachable from the main keys that are not ignored are constructed, and
\* all of them are when the load returns.
C10_DependenciesFirst ==
  /\ \A n \in 1..Len(constructed) :
       \A r \in SectionRefs(constructed[n]) :
         /\ \E m \in 1..(n - 1) : constructed[m] = r
         /\ (ObjectPrefix \o r) \in DOMAIN existing_objects
         /\ existing_objects[ObjectPrefix \o r].t = "instance"
  /\ \A key \in DOMAIN existing_objects :
       existing_objects[key].t = "instance" =>
         /\ key = ObjectPrefix \o existing_objects[key].section
         /\ existing_objects[key].id \in 1..Len(constructed)
         /\ constructed[existing_objects[key].id] = existing_objects[key].section
  /\ \A n \in 1..Len(constructed) : constructed[n] \in Reachable
  /\ load_pc = "returned" => Reachable = Range(constructed)

\* C10 witness: a load returned after constructing b, then a, which refers
\* to b, while a section no main key reaches was left alone.
C10_Witness ==
  /\ load_pc = "returned"
  /\ constructed = << <<"b">>, <<"a">> >>
  /\ <<"b">> \in SectionRefs(<<"a">>)


\* C3 as stated: get_object given a reference to a name of ignore_names
\* returns None and records None in the cache under the name or the
\* reference, and the section of an ignored name is never constructed.
C3_IgnoredReference ==
  /\ (/\ returned.depth >= 0
      /\ IsReference(returned.value)
      /\ ReferencedName(returned.value) \in ignore_names)
       => /\ returned.result = NoneVal
          /\ \E key \in {returned.value.s, ReferencedName(returned.value)} :
               /\ key \in DOMAIN existing_objects
               /\ existing_objects[key] = NoneVal
  /\ \A n \in 1..Len(constructed) : constructed[n] \notin ignore_names

\* C4 as stated: for a class without **kwargs, a section whose argument
\* names do not cover every parameter without a default (self apart) fails
\* before the constructor is called, with an error that names exactly the
\* parameters not covered.
C4_MissingArgsRejected ==
  /\ \A n \in 1..Len(constructed) :
       ~SignatureOf(constructed[n]).keywords =>
         CallRequired(SignatureOf(constructed[n])) \subseteq ArgNames(constructed[n])
  /\ FailedWith("MissingRequiredArgs") =>
       load_exc.original.args =
         CallRequired(SignatureOf(load_exc.original.name))
           \ ArgNames(load_exc.original.name)

\* C5 as stated: get_object of a list or tuple returns a sequence of the same
\* kind and length.
C5_SequenceKindKept ==
  (returned.depth >= 0 /\ IsSequence(returned.value)) =>
    /\ returned.result.t = returned.value.t
    /\ Len(returned.result.elems) = Len(returned.value.elems)

\* The brackets of s read from left to right with a stack: the 0-based
\* column of the first closing bracket that does not close the bracket
\* opened last (-1 when there is none), and the brackets left open.
RECURSIVE BracketScan(_, _, _)
BracketScan(s, n, open) ==
  IF n = Len(s) THEN [mismatch |-> -1, open |-> open]
  ELSE IF s[n + 1] \in {"(", "["}
    THEN BracketScan(s, n + 1, Append(open, s[n + 1]))
  ELSE IF s[n + 1] \in {")", "]"}
    THEN IF open # << >> /\ Last(open) = (IF s[n + 1] = ")" THEN "(" ELSE "[")
           THEN BracketScan(s, n + 1, Front(open))
           ELSE [mismatch |-> n, open |-> open]
  ELSE BracketScan(s, n + 1, open)

\* C6 as stated: split_on_commas raises the bracket error, with the column,
\* at a closing bracket that does not close the bracket opened last, also
\* when none is open; it raises when a bracket is open at the end; it
\* returns only when every bracket is closed.
C6_BracketsChecked ==
  split_pc \in {"returned", "raised"} =>
    LET scan == BracketScan(string, 0, << >>)
    IN  /\ scan.mismatch >= 0 =>
             /\ split_pc = "raised"
             /\ split_locals.exc = "InvalidBracketEnd"
             /\ split_locals.col = scan.mismatch
        /\ (scan.mismatch < 0 /\ scan.open # << >>) => split_pc = "raised"
        /\ split_pc = "returned" => (scan.mismatch < 0 /\ scan.open = << >>)

\* C7 as stated: at a second header of a section the parse raises a syntax
\* error whose line is the 1-based position of that header, the number of
\* lines read so far.
C7_DuplicateSectionLine ==
  (parse_pc = "raised" /\ parse_locals.exc.message = "Duplicit object key") =>
    /\ parse_locals.exc.type = "IniSyntaxError"
    /\ parse_locals.exc.line = parse_n

\* C9 as stated: get_object of a value that is neither a sequence nor a
\* reference returns the value whatever ignore_names and the cache hold, and
\* adds nothing to the cache.
C9_PlainValueUnchanged ==
  /\ (returned.depth >= 0 /\ ~IsSequence(returned.value)
        /\ NotAReference(returned.value))
       => returned.result = returned.value
  /\ \A key \in DOMAIN existing_objects : StartsWith(key, ObjectPrefix)


=============================================================================
